---- MODULE Spec2Model ----
(***************************************************************************)
(* Token-bucket rate limiter (ratelimiter.py): Rate, Bucket, RateLimiter.  *)
(*                                                                         *)
(* Time is the reading of time.monotonic_ns(), an integer number of        *)
(* nanoseconds that never decreases.  The quotients int(a / b) of the      *)
(* source are float divisions followed by truncation toward zero; for      *)
(* operands below 2^53 (all operands of this model) the result is the      *)
(* exact truncated quotient, which is what TruncDiv computes.              *)
(***************************************************************************)
EXTENDS Integers, Sequences, FiniteSets

\* ------------------------------------------------------------------ bounds
\* Clock horizon, counted in quanta of the caller's sleeps.
MaxTime == 8
\* Absolute clock horizon in nanoseconds.
MaxClock == 2000000000
\* Longest single sleep, in quanta.
MaxStep == 2
\* Number of allow() calls recorded for one RateLimiter.
MaxCalls == 5
\* Deepest overdraft explored: current >= -MaxDebt.
MaxDebt == 2
\* Largest bucket capacity explored.
MaxVolume == 2

\* Number of Rate constructions recorded side by side.
MaxRates == 2

\* --------------------------------------------------------------- constants
SECOND_AS_NS == 1000000000

\* --------------------------------------------------------------- inputs
\* Granularity of the caller's sleeps: 1 ns, or a quarter of a second.
Quanta == {1, 250000000}
\* Rate(amount, period_ns) arguments.
Amounts == -1 .. 3
Periods == {2, 3, 4, 6}
\* Bucket.remove(amount) arguments.
RemoveAmounts == -1 .. 2
\* RateLimiter(rps) arguments of the limiter that two callers share:
\* 2.5e8 and 5e8 requests per second (periods of 4 ns and 2 ns).
SharedFrequencies == { <<250000000, 1>>, <<500000000, 1>> }
\* RateLimiter(rps) arguments, as fractions <<numerator, denominator>>:
\* -1, 0, 0.5, 1, 2, 2.5e8, 5e8 and 2e9 requests per second.
Frequencies ==
    { <<0 - 1, 1>>, <<0, 1>>, <<1, 2>>, <<1, 1>>, <<2, 1>>,
      <<250000000, 1>>, <<500000000, 1>>, <<2000000000, 1>> }

\* Arguments of the Rate constructions that are compared with each other.
RateAmounts == 0 .. 3
RatePeriods == {1, 2, 3, 4, 6, SECOND_AS_NS \div 2, SECOND_AS_NS}
\* Rate.from_frequency arguments: -1 .. 10, 0.5, 1e9 and 2e9 per second.
RateFrequencies ==
    { <<n, 1>> : n \in (0 - 1) .. 10 }
        \cup { <<1, 2>>, <<1000000000, 1>>, <<2000000000, 1>> }
\* The callers that share one RateLimiter.
Callers == {1, 2}

VARIABLES
    now,        \* time.monotonic_ns()
    quantum,    \* granularity of the caller's sleeps (environment)
    rate,       \* the Rate built last: [made, period_ns]
    obj,        \* what has been constructed: "none", "Bucket", "RateLimiter"
    bucket,     \* [volume, period_ns, current, last_refill_ns]
    call,       \* the last call made and what it saw
    created_ns, \* clock reading at Bucket construction
    run,        \* bucket as it was after the last remove / construction
    history,    \* the RateLimiter's allow() calls: <<[at, ret], ...>>
    rates,      \* the Rate constructions made: <<[via, amount, arg, raised, rate], ...>>
    thr         \* per concurrent caller of allow(): position and locals

vars ==
    <<now, quantum, rate, obj, bucket, call, created_ns, run, history,
      rates, thr>>

\* ------------------------------------------------------------ pure helpers
Abs(x) == IF x < 0 THEN 0 - x ELSE x

Min(a, b) == IF a <= b THEN a ELSE b

\* int(a / b): true division, then truncation toward zero (b # 0).
TruncDiv(a, b) ==
    IF (a >= 0) = (b > 0)
    THEN Abs(a) \div Abs(b)
    ELSE 0 - (Abs(a) \div Abs(b))

\* round(a / b) for a >= 0 and b > 0, ties to the even integer.
RoundDiv(a, b) ==
    LET q == a \div b
        r == a % b
    IN  IF 2 * r < b THEN q
        ELSE IF 2 * r > b THEN q + 1
        ELSE IF q % 2 = 0 THEN q ELSE q + 1

\* ------------------------------------------------------------------- Rate
\* Rate.__post_init__ keeping the period of the whole amount.
Rate_post_init_unnormalised(amount, period_ns) ==
    IF amount < 1
    THEN [raised |-> "ValueError", period_ns |-> 0]
    ELSE [raised |-> "None", period_ns |-> period_ns]

\* Rate.__post_init__: normalise "amount per period_ns" to one per period.
Rate_post_init(amount, period_ns) ==
    IF amount < 1
    THEN [raised |-> "ValueError", period_ns |-> 0]
    ELSE [raised |-> "None", period_ns |-> TruncDiv(period_ns, amount)]

\* Rate.from_frequency rounding the period to the nearest nanosecond.
from_frequency_rounds(f) ==
    IF f[1] = 0
    THEN [raised |-> "ZeroDivisionError", period_ns |-> 0]
    ELSE IF f[1] > 0
    THEN Rate_post_init(1, RoundDiv(f[2] * SECOND_AS_NS, f[1]))
    ELSE Rate_post_init(1, TruncDiv(f[2] * SECOND_AS_NS, f[1]))

\* Rate.from_frequency, for the frequency f[1] / f[2]:
\*   period_sec = 1 / frequency_per_sec
\*   period_ns  = int(period_sec * _SECOND_AS_NS)
from_frequency(f) ==
    IF f[1] = 0
    THEN [raised |-> "ZeroDivisionError", period_ns |-> 0]
    ELSE Rate_post_init(1, TruncDiv(f[2] * SECOND_AS_NS, f[1]))

\* A Rate object: the dataclass has the single field period_ns.
RateObject(period_ns) == [period_ns |-> period_ns]

\* Rate.__eq__, generated by @dataclass: the tuples of fields are compared.
Rate_eq(r1, r2) == <<r1.period_ns>> = <<r2.period_ns>>

\* ----------------------------------------------------------------- Bucket
NoBucket == [volume |-> 0, period_ns |-> 0, current |-> 0, last_refill_ns |-> 0]

\* Bucket.__init__ starting the bucket empty instead of full.
Bucket_init_empty(volume, period_ns, t) ==
    [volume |-> volume, period_ns |-> period_ns,
     current |-> 0, last_refill_ns |-> t]

\* Bucket.__init__
Bucket_init(volume, period_ns, t) ==
    [volume |-> volume, period_ns |-> period_ns,
     current |-> volume, last_refill_ns |-> t]

\* Bucket.is_empty treating a count of zero as not empty.
is_empty_strict(b) == b.current < 0

\* Bucket.is_empty
is_empty(b) == b.current <= 0

\* Bucket.remove clamping the token count at zero.
remove_floor_zero(b, amount) ==
    IF amount < 0
    THEN [raised |-> "ValueError", b |-> b]
    ELSE [raised |-> "None",
          b |-> [b EXCEPT !.current =
                              IF b.current - amount < 0 THEN 0
                              ELSE b.current - amount]]

\* Bucket.remove decrementing before it validates the amount.
remove_before_check(b, amount) ==
    [raised |-> IF amount < 0 THEN "ValueError" ELSE "None",
     b |-> [b EXCEPT !.current = b.current - amount]]

\* Bucket.remove
remove(b, amount) ==
    IF amount < 0
    THEN [raised |-> "ValueError", b |-> b]
    ELSE [raised |-> "None", b |-> [b EXCEPT !.current = b.current - amount]]

\* Bucket.refill moving last_refill to the clock reading after crediting.
refill_to_now(b, t) ==
    LET refill_needed == b.current < b.volume
        time_since_last_refill == t - b.last_refill_ns
    IN  IF ~refill_needed
        THEN [raised |-> "None", b |-> [b EXCEPT !.last_refill_ns = t]]
        ELSE IF b.period_ns = 0
        THEN [raised |-> "ZeroDivisionError", b |-> b]
        ELSE LET n_tokens == TruncDiv(time_since_last_refill, b.period_ns)
             IN  [raised |-> "None",
                  b |-> [b EXCEPT
                           !.current = Min(b.current + n_tokens, b.volume),
                           !.last_refill_ns = t]]

\* Bucket.refill crediting tokens without advancing last_refill.
refill_no_advance(b, t) ==
    LET refill_needed == b.current < b.volume
        time_since_last_refill == t - b.last_refill_ns
    IN  IF ~refill_needed
        THEN [raised |-> "None", b |-> [b EXCEPT !.last_refill_ns = t]]
        ELSE IF b.period_ns = 0
        THEN [raised |-> "ZeroDivisionError", b |-> b]
        ELSE LET n_tokens == TruncDiv(time_since_last_refill, b.period_ns)
             IN  [raised |-> "None",
                  b |-> [b EXCEPT
                           !.current = Min(b.current + n_tokens, b.volume)]]

\* Bucket.refill without the early return for a full bucket.
refill_no_early_return(b, t) ==
    LET time_since_last_refill == t - b.last_refill_ns
    IN  IF b.period_ns = 0
        THEN [raised |-> "ZeroDivisionError", b |-> b]
        ELSE LET n_tokens == TruncDiv(time_since_last_refill, b.period_ns)
             IN  [raised |-> "None",
                  b |-> [b EXCEPT
                           !.current = Min(b.current + n_tokens, b.volume),
                           !.last_refill_ns =
                               b.last_refill_ns + n_tokens * b.period_ns]]

\* Bucket.refill counting a started period as a whole one.
refill_round_up(b, t) ==
    LET refill_needed == b.current < b.volume
        time_since_last_refill == t - b.last_refill_ns
    IN  IF ~refill_needed
        THEN [raised |-> "None", b |-> [b EXCEPT !.last_refill_ns = t]]
        ELSE IF b.period_ns = 0
        THEN [raised |-> "ZeroDivisionError", b |-> b]
        ELSE LET n_tokens ==
                     TruncDiv(time_since_last_refill + Abs(b.period_ns) - 1,
                              b.period_ns)
             IN  [raised |-> "None",
                  b |-> [b EXCEPT
                           !.current = Min(b.current + n_tokens, b.volume),
                           !.last_refill_ns =
                               b.last_refill_ns + n_tokens * b.period_ns]]

\* Bucket.refill without the cap at the volume.
refill_uncapped(b, t) ==
    LET refill_needed == b.current < b.volume
        time_since_last_refill == t - b.last_refill_ns
    IN  IF ~refill_needed
        THEN [raised |-> "None", b |-> [b EXCEPT !.last_refill_ns = t]]
        ELSE IF b.period_ns = 0
        THEN [raised |-> "ZeroDivisionError", b |-> b]
        ELSE LET n_tokens == TruncDiv(time_since_last_refill, b.period_ns)
             IN  [raised |-> "None",
                  b |-> [b EXCEPT
                           !.current = b.current + n_tokens,
                           !.last_refill_ns =
                               b.last_refill_ns + n_tokens * b.period_ns]]

\* Bucket.refill at clock reading t
refill(b, t) ==
    LET refill_needed == b.current < b.volume
        time_since_last_refill == t - b.last_refill_ns
    IN  IF ~refill_needed
        THEN [raised |-> "None", b |-> [b EXCEPT !.last_refill_ns = t]]
        ELSE IF b.period_ns = 0
        THEN [raised |-> "ZeroDivisionError", b |-> b]
        ELSE LET n_tokens == TruncDiv(time_since_last_refill, b.period_ns)
             IN  [raised |-> "None",
                  b |-> [b EXCEPT
                           !.current = Min(b.current + n_tokens, b.volume),
                           !.last_refill_ns =
                               b.last_refill_ns + n_tokens * b.period_ns]]

\* ------------------------------------------------------------ RateLimiter
\* RateLimiter.allow taking a token on rejection too.
allow_consumes_on_reject(b, t) ==
    LET r == refill(b, t)
    IN  IF r.raised # "None"
        THEN [raised |-> r.raised, ret |-> "None", mid |-> r.b.current, b |-> r.b]
        ELSE [raised |-> "None",
              ret |-> IF is_empty(r.b) THEN "False" ELSE "True",
              mid |-> r.b.current,
              b |-> remove(r.b, 1).b]

\* RateLimiter.allow at clock reading t; mid is the token count refill left.
allow(b, t) ==
    LET r == refill(b, t)
    IN  IF r.raised # "None"
        THEN [raised |-> r.raised, ret |-> "None", mid |-> r.b.current, b |-> r.b]
        ELSE IF is_empty(r.b)
        THEN [raised |-> "None", ret |-> "False", mid |-> r.b.current, b |-> r.b]
        ELSE [raised |-> "None", ret |-> "True", mid |-> r.b.current,
              b |-> remove(r.b, 1).b]

\* ------------------------------------------------------------ bookkeeping
\* Record of a call: what was called with what, when, on which bucket, and
\* what came back (ret) or was raised.
Called(op, arg, b, mid, ret, raised) ==
    [op |-> op, arg |-> arg, at |-> now, pre |-> b, mid |-> mid,
     ret |-> ret, raised |-> raised]

\* A caller that is not inside allow().
Idle == [pc |-> "idle", n |-> 0, tmp |-> 0, seen |-> 0, ret |-> "None"]

Init ==
    /\ now = 0
    /\ quantum \in Quanta
    /\ rate = [made |-> FALSE, period_ns |-> 0]
    /\ obj = "none"
    /\ bucket = NoBucket
    /\ call = [op |-> "none", arg |-> 0, at |-> 0, pre |-> NoBucket, mid |-> 0,
               ret |-> "None", raised |-> "None"]
    /\ created_ns = 0
    /\ run = NoBucket
    /\ history = << >>
    /\ rates = << >>
    /\ thr = [c \in Callers |-> Idle]

\* ---------------------------------------------------------------- actions
\* The caller sleeps; the monotonic clock advances.
Tick ==
    \E k \in 1 .. MaxStep :
        /\ (now \div quantum) + k <= MaxTime
        /\ now <= MaxClock - k * quantum
        /\ now' = now + k * quantum
        /\ UNCHANGED <<quantum, rate, obj, bucket, call, created_ns, run, history,
                       rates, thr>>

\* Rate(amount, period_ns)
NewRate ==
    \E amount \in Amounts, period_ns \in Periods :
        LET r == Rate_post_init(amount, period_ns)
        IN  /\ obj = "none"
            /\ rate' = IF r.raised = "None"
                       THEN [made |-> TRUE, period_ns |-> r.period_ns]
                       ELSE rate
            /\ call' = Called("Rate", amount, bucket, 0, "None", r.raised)
            /\ UNCHANGED <<now, quantum, obj, bucket, created_ns, run, history,
                       rates, thr>>

\* Bucket(volume, rate)
NewBucket ==
    \E volume \in 1 .. MaxVolume :
        /\ obj = "none"
        /\ rate.made
        /\ obj' = "Bucket"
        /\ bucket' = Bucket_init(volume, rate.period_ns, now)
        /\ created_ns' = now
        /\ run' = bucket'
        /\ call' = Called("Bucket", volume, bucket, 0, "None", "None")
        /\ UNCHANGED <<now, quantum, rate, history, rates, thr>>

\* RateLimiter(rps)
NewRateLimiter ==
    \E f \in Frequencies :
        LET r == from_frequency(f)
        IN  /\ obj = "none"
            /\ call' = Called("RateLimiter", f[1], bucket, 0, "None", r.raised)
            /\ IF r.raised = "None"
               THEN /\ rate' = [made |-> TRUE, period_ns |-> r.period_ns]
                    /\ obj' = "RateLimiter"
                    /\ bucket' = Bucket_init(1, r.period_ns, now)
                    /\ created_ns' = now
                    /\ run' = bucket'
               ELSE UNCHANGED <<rate, obj, bucket, created_ns, run>>
            /\ UNCHANGED <<now, quantum, history, rates, thr>>

\* bucket.refill()
Refill ==
    LET r == refill(bucket, now)
    IN  /\ obj = "Bucket"
        /\ bucket' = r.b
        /\ call' = Called("refill", 0, bucket, r.b.current, "None", r.raised)
        /\ UNCHANGED <<now, quantum, rate, obj, created_ns, run, history,
                       rates, thr>>

\* bucket.remove(amount)
Remove ==
    \E amount \in RemoveAmounts :
        LET r == remove(bucket, amount)
        IN  /\ obj = "Bucket"
            /\ r.b.current >= 0 - MaxDebt
            /\ bucket' = r.b
            /\ run' = IF r.raised = "None" THEN r.b ELSE run
            /\ call' = Called("remove", amount, bucket, r.b.current, "None", r.raised)
            /\ UNCHANGED <<now, quantum, rate, obj, created_ns, history,
                       rates, thr>>

\* bucket.is_empty
IsEmpty ==
    /\ obj = "Bucket"
    /\ call' = Called("is_empty", 0, bucket, bucket.current,
                      IF is_empty(bucket) THEN "True" ELSE "False", "None")
    /\ UNCHANGED <<now, quantum, rate, obj, bucket, created_ns, run, history,
                       rates, thr>>

\* limiter.allow(), one caller
Allow ==
    LET r == allow(bucket, now)
    IN  /\ obj = "RateLimiter"
        /\ Len(history) < MaxCalls
        /\ bucket' = r.b
        /\ call' = Called("allow", 0, bucket, r.mid, r.ret, r.raised)
        /\ history' = Append(history, [at |-> now, ret |-> r.ret])
        /\ UNCHANGED <<now, quantum, rate, obj, created_ns, run,
                       rates, thr>>

Next ==
    \/ Tick
    \/ NewRate
    \/ NewBucket
    \/ NewRateLimiter
    \/ Refill
    \/ Remove
    \/ IsEmpty
    \/ Allow

Spec == Init /\ [][Next]_vars

\* ------------------------------------------- Rate constructions on their own
\* What one construction was given and what it produced.
Built(via, amount, period_in, f, r) ==
    [via |-> via, amount |-> amount, period_in |-> period_in,
     num |-> f[1], den |-> f[2], raised |-> r.raised,
     rate |-> RateObject(r.period_ns)]

InitRate == Init /\ quantum = 1

\* Rate(amount, period_ns)
RateCall ==
    \E amount \in RateAmounts, period_ns \in RatePeriods :
        /\ Len(rates) < MaxRates
        /\ rates' = Append(rates,
               Built("Rate", amount, period_ns, <<0, 0>>,
                     Rate_post_init(amount, period_ns)))
        /\ UNCHANGED <<now, quantum, rate, obj, bucket, call, created_ns, run,
                       history, thr>>

\* Rate.from_frequency(frequency_per_sec)
FromFrequencyCall ==
    \E f \in RateFrequencies :
        /\ Len(rates) < MaxRates
        /\ rates' = Append(rates, Built("from_frequency", 1, 0, f, from_frequency(f)))
        /\ UNCHANGED <<now, quantum, rate, obj, bucket, call, created_ns, run,
                       history, thr>>

NextRate ==
    \/ RateCall
    \/ FromFrequencyCall

SpecRate == InitRate /\ [][NextRate]_vars

\* ------------------------------------- two callers sharing a RateLimiter
\* allow() is not synchronised: each caller runs it one access to the shared
\* bucket at a time, and the accesses of the two callers interleave freely.
\* pc names the source line a caller is about to execute ("r" / "w": the read
\* and the write of a read-modify-write statement); n is its n_tokens, tmp
\* the value it has read and not yet written back, seen the token count its
\* is_empty read.

\* The limiter is fresh, or has served one accepted call, at clock reading 0.
InitConc ==
    /\ now = 0
    /\ quantum = 1
    /\ \E f \in SharedFrequencies :
          /\ rate = [made |-> TRUE, period_ns |-> from_frequency(f).period_ns]
          /\ \E b \in { Bucket_init(1, rate.period_ns, now),
                        allow(Bucket_init(1, rate.period_ns, now), now).b } :
                 /\ bucket = b
                 /\ run = b
    /\ obj = "RateLimiter"
    /\ call = [op |-> "none", arg |-> 0, at |-> 0, pre |-> NoBucket, mid |-> 0,
               ret |-> "None", raised |-> "None"]
    /\ created_ns = 0
    /\ history = << >>
    /\ rates = << >>
    /\ thr = [c \in Callers |-> Idle]

ConcFrame == <<now, quantum, rate, obj, call, created_ns, run, history, rates>>

\* line 204: refill_needed = self._current < self._volume
L204(c) ==
    /\ thr[c].pc = "idle"
    /\ thr' = [thr EXCEPT ![c].pc =
                  IF bucket.current < bucket.volume THEN "l208" ELSE "l206"]
    /\ UNCHANGED <<bucket, ConcFrame>>

\* lines 206-207: self._last_refill_ns = time.monotonic_ns(); return
L206(c) ==
    /\ thr[c].pc = "l206"
    /\ bucket' = [bucket EXCEPT !.last_refill_ns = now]
    /\ thr' = [thr EXCEPT ![c].pc = "l265"]
    /\ UNCHANGED ConcFrame

\* lines 208-209: time_since_last_refill and n_tokens
L208(c) ==
    /\ thr[c].pc = "l208"
    /\ thr' = [thr EXCEPT
                 ![c].pc = "l210r",
                 ![c].n = TruncDiv(now - bucket.last_refill_ns, bucket.period_ns)]
    /\ UNCHANGED <<bucket, ConcFrame>>

\* line 210, read: self._current + n_tokens
L210r(c) ==
    /\ thr[c].pc = "l210r"
    /\ thr' = [thr EXCEPT ![c].pc = "l210w", ![c].tmp = bucket.current]
    /\ UNCHANGED <<bucket, ConcFrame>>

\* line 210, write: self._current = min(..., self._volume)
L210w(c) ==
    /\ thr[c].pc = "l210w"
    /\ bucket' = [bucket EXCEPT
                    !.current = Min(thr[c].tmp + thr[c].n, bucket.volume)]
    /\ thr' = [thr EXCEPT ![c].pc = "l212r"]
    /\ UNCHANGED ConcFrame

\* line 212, read: self._last_refill_ns
L212r(c) ==
    /\ thr[c].pc = "l212r"
    /\ thr' = [thr EXCEPT ![c].pc = "l212w", ![c].tmp = bucket.last_refill_ns]
    /\ UNCHANGED <<bucket, ConcFrame>>

\* line 212, write: self._last_refill_ns += n_tokens * period_ns
L212w(c) ==
    /\ thr[c].pc = "l212w"
    /\ bucket' = [bucket EXCEPT
                    !.last_refill_ns = thr[c].tmp + thr[c].n * bucket.period_ns]
    /\ thr' = [thr EXCEPT ![c].pc = "l265"]
    /\ UNCHANGED ConcFrame

\* lines 265-266: if self._bucket.is_empty: return False
L265(c) ==
    /\ thr[c].pc = "l265"
    /\ thr' = [thr EXCEPT
                 ![c].seen = bucket.current,
                 ![c].pc = IF is_empty(bucket) THEN "done" ELSE "l157r",
                 ![c].ret = IF is_empty(bucket) THEN "False" ELSE "None"]
    /\ UNCHANGED <<bucket, ConcFrame>>

\* line 157, read: self._current - amount, called from line 268
L157r(c) ==
    /\ thr[c].pc = "l157r"
    /\ thr' = [thr EXCEPT ![c].pc = "l157w", ![c].tmp = bucket.current]
    /\ UNCHANGED <<bucket, ConcFrame>>

\* line 157, write: self._current -= amount; line 270: return True
L157w(c) ==
    /\ thr[c].pc = "l157w"
    /\ bucket' = [bucket EXCEPT !.current = thr[c].tmp - 1]
    /\ thr' = [thr EXCEPT ![c].pc = "done", ![c].ret = "True"]
    /\ UNCHANGED ConcFrame

NextConc ==
    \/ Tick
    \/ \E c \in Callers : L204(c)
    \/ \E c \in Callers : L206(c)
    \/ \E c \in Callers : L208(c)
    \/ \E c \in Callers : L210r(c)
    \/ \E c \in Callers : L210w(c)
    \/ \E c \in Callers : L212r(c)
    \/ \E c \in Callers : L212w(c)
    \/ \E c \in Callers : L265(c)
    \/ \E c \in Callers : L157r(c)
    \/ \E c \in Callers : L157w(c)

SpecConc == InitConc /\ [][NextConc]_vars

TypeOK ==
    /\ now \in 0 .. MaxClock
    /\ quantum \in Quanta
    /\ obj \in {"none", "Bucket", "RateLimiter"}
    /\ Len(history) <= MaxCalls

\* ------------------------------------------------------------- properties
\* Refill period of the constructed bucket; the rate-limiting claims are
\* about buckets whose Rate has a positive period.
P == bucket.period_ns

Accepted(h) == Cardinality({i \in 1 .. Len(h) : h[i].ret = "True"})

\* All consecutive allow() calls of h are exactly gap nanoseconds apart.
Spaced(h, gap) == \A i \in 1 .. Len(h) - 1 : h[i + 1].at - h[i].at = gap

Alternating(h) ==
    \A i \in 1 .. Len(h) : h[i].ret = IF i % 2 = 1 THEN "True" ELSE "False"

AllowReturned == call.op = "allow" /\ call.raised = "None" /\ P > 0

\* C1: allow() runs refill() first; it returns True exactly when the token
\* count left by that refill is > 0 and then takes exactly one token; when the
\* count is <= 0 it returns False and the count is what it was before the call.
C1_AllowContract ==
    AllowReturned =>
        LET r == refill(call.pre, call.at)
        IN  /\ call.mid = r.b.current
            /\ bucket.last_refill_ns = r.b.last_refill_ns
            /\ (call.ret = "True") <=> (call.mid > 0)
            /\ call.ret \in {"True", "False"}
            /\ call.ret = "True" => bucket.current = call.mid - 1
            /\ call.ret = "False" =>
                   /\ bucket.current = call.mid
                   /\ bucket.current = call.pre.current

\* A rejected allow() that follows an accepted one.
C1_Witness ==
    /\ AllowReturned
    /\ call.ret = "False"
    /\ Accepted(history) >= 1
    /\ call.at > created_ns

\* C2: for one caller, at any clock time the number of accepted allow() calls
\* since construction is at most 1 + floor((now - created) / period_ns).
C2_AdmissionBound ==
    (obj = "RateLimiter" /\ P > 0) =>
        Accepted(history) <= 1 + ((now - created_ns) \div P)

\* The bound is met with equality after three accepted calls.
C2_Witness ==
    /\ obj = "RateLimiter" /\ P > 0
    /\ Accepted(history) >= 3
    /\ Accepted(history) = 1 + ((now - created_ns) \div P)

\* Five allow() calls on a limiter built by RateLimiter(2), each exactly one
\* refill period after the previous one.
C3_Scenario ==
    /\ obj = "RateLimiter"
    /\ P = from_frequency(<<2, 1>>).period_ns
    /\ Len(history) = 5
    /\ Spaced(history, P)

\* C3 as stated: RateLimiter(2) called five times one refill period (0.5 s)
\* apart answers True, False, True, False, True.
C3_AsStated == C3_Scenario => Alternating(history)

\* C3 amended: RateLimiter(1) (period 1 s) called five times 0.5 s apart, half
\* a refill period, answers True, False, True, False, True.
C3_HalfSecondPolling ==
    ( /\ obj = "RateLimiter"
      /\ P = from_frequency(<<1, 1>>).period_ns
      /\ Len(history) = 5
      /\ Spaced(history, SECOND_AS_NS \div 2) ) =>
        Alternating(history)

\* Five calls half a second apart on the one-per-second limiter.
C3_Witness ==
    /\ obj = "RateLimiter"
    /\ P = SECOND_AS_NS
    /\ Len(history) = 5
    /\ Spaced(history, SECOND_AS_NS \div 2)

\* C4: a fresh RateLimiter with period P polled every P/2 answers True, False,
\* True, False, ...: the first call is accepted, then every second one is
\* rejected.
C4_HalfPeriodPolling ==
    ( /\ obj = "RateLimiter"
      /\ P > 0
      /\ P % 2 = 0
      /\ Spaced(history, P \div 2) ) =>
        Alternating(history)

\* Five calls half a period apart, the first one some time after construction,
\* on a limiter other than the one-per-second one.
C4_Witness ==
    /\ obj = "RateLimiter"
    /\ P > 0 /\ P % 2 = 0 /\ P # SECOND_AS_NS
    /\ Len(history) = 5
    /\ Spaced(history, P \div 2)
    /\ history[1].at > created_ns

RefillReturned == call.op = "refill" /\ call.raised = "None"

\* C5: refill() on a bucket below capacity credits
\* n = floor((now - last_refill) / period) tokens, capped at the volume, and
\* advances last_refill by exactly n * period, so that afterwards
\* 0 <= now - last_refill < period.
C5_RefillArithmetic ==
    (RefillReturned /\ P > 0 /\ call.pre.current < call.pre.volume) =>
        LET n == (call.at - call.pre.last_refill_ns) \div P
        IN  /\ bucket.current = Min(call.pre.current + n, bucket.volume)
            /\ bucket.last_refill_ns = call.pre.last_refill_ns + n * P
            /\ 0 <= call.at - bucket.last_refill_ns
            /\ call.at - bucket.last_refill_ns < P

\* A refill of an overdrawn bucket that credits tokens and keeps a leftover.
C5_Witness ==
    /\ RefillReturned /\ P > 1
    /\ call.pre.current < 0
    /\ bucket.current > call.pre.current
    /\ call.at - bucket.last_refill_ns > 0

\* C6: while the bucket stays below capacity, the refill() calls made since
\* the last remove have credited exactly floor((now - L0) / period) tokens in
\* total, L0 being last_refill before the first of them, however many calls
\* there were and whenever they were made.
C6_NoLossNoDoubleRefill ==
    (RefillReturned /\ P > 0 /\ bucket.current < bucket.volume) =>
        bucket.current - run.current =
            (call.at - run.last_refill_ns) \div P

\* The second crediting refill of a run, with a leftover still pending.
C6_Witness ==
    /\ RefillReturned /\ P > 1
    /\ bucket.current < bucket.volume
    /\ call.pre.last_refill_ns > run.last_refill_ns
    /\ bucket.last_refill_ns > call.pre.last_refill_ns
    /\ call.at > bucket.last_refill_ns

C8_FullRefill ==
    (call.op = "refill" /\ call.pre.current >= call.pre.volume) =>
        /\ call.raised = "None"
        /\ bucket.current = call.pre.current
        /\ bucket.last_refill_ns = call.at

\* A repeated refill of a full bucket: the timestamp had already been moved
\* past construction and is moved again.
C8_Witness ==
    /\ call.op = "refill"
    /\ call.pre.current >= call.pre.volume
    /\ call.pre.last_refill_ns > created_ns
    /\ bucket.last_refill_ns > call.pre.last_refill_ns

\* C9: remove(amount) with amount >= 0 takes exactly amount tokens, with no
\* floor at zero, and leaves last_refill alone; is_empty is True exactly when
\* current <= 0.
C9_RemoveAndIsEmpty ==
    /\ (call.op = "remove" /\ call.arg >= 0) =>
           /\ call.raised = "None"
           /\ bucket.current = call.pre.current - call.arg
           /\ bucket.last_refill_ns = call.pre.last_refill_ns
    /\ call.op = "is_empty" =>
           /\ (call.ret = "True") <=> (bucket.current <= 0)
           /\ call.ret \in {"True", "False"}
           /\ bucket = call.pre

\* A remove that overdraws a bucket that still held a token.
C9_Witness ==
    /\ call.op = "remove"
    /\ call.pre.current > 0
    /\ bucket.current < 0

\* C10: Rate(amount, ...) with amount < 1 and remove(amount) with amount < 0
\* raise ValueError before changing anything: no Rate is produced and the
\* bucket is exactly what it was.
C10_RejectInvalid ==
    [][ /\ (call'.op = "Rate" /\ call'.arg < 1) =>
              /\ call'.raised = "ValueError"
              /\ rate' = rate
              /\ obj' = obj
        /\ (call'.op = "remove" /\ call'.arg < 0) =>
              /\ call'.raised = "ValueError"
              /\ bucket' = bucket
              /\ bucket' = call'.pre ]_vars

\* A negative remove refused on a bucket that has been drawn from.
C10_Witness ==
    /\ call.op = "remove"
    /\ call.arg < 0
    /\ call.raised = "ValueError"
    /\ bucket.current < bucket.volume

\* ------------------------------------------ further properties of Spec
BucketOps == {"refill", "remove", "is_empty", "allow"}

\* C15: with a positive period and a clock that never goes back, no operation
\* moves last_refill backwards and last_refill never exceeds the clock.
C15_TimestampMonotone ==
    (obj # "none" /\ P > 0) =>
        /\ bucket.last_refill_ns <= now
        /\ bucket.last_refill_ns <= call.at
        /\ bucket.last_refill_ns >= created_ns
        /\ call.op \in BucketOps =>
               bucket.last_refill_ns >= call.pre.last_refill_ns

\* A refill that moved the timestamp forward, but not up to the clock.
C15_Witness ==
    /\ obj = "Bucket" /\ P > 0
    /\ call.op = "refill"
    /\ bucket.last_refill_ns > call.pre.last_refill_ns
    /\ bucket.last_refill_ns < call.at
    /\ call.at < now

\* C16 as stated: every change refill() makes to last_refill is a whole
\* multiple of the refill period.
C16_AsStated ==
    (RefillReturned /\ P > 0) =>
        (bucket.last_refill_ns - call.pre.last_refill_ns) % P = 0

\* C16 amended: every change refill() makes to last_refill on a bucket below
\* capacity is a whole multiple of the refill period (on a full bucket refill
\* stores the clock reading, any distance from the old value).
C16_WholePeriodsBelowCapacity ==
    (RefillReturned /\ P > 0 /\ call.pre.current < call.pre.volume) =>
        /\ (bucket.last_refill_ns - call.pre.last_refill_ns) % P = 0
        /\ bucket.last_refill_ns >= call.pre.last_refill_ns

\* A refill below capacity that advanced the timestamp by two periods or
\* more while the clock was not on a period boundary.
C16_Witness ==
    /\ RefillReturned /\ P > 1
    /\ call.pre.current < call.pre.volume
    /\ bucket.last_refill_ns - call.pre.last_refill_ns >= 2 * P
    /\ (call.at - call.pre.last_refill_ns) % P # 0

\* C17: a Bucket is created full, current never exceeds the volume, remove
\* never increases current and refill never decreases it, and nothing else
\* changes it.
C17_CurrentBounded ==
    obj = "Bucket" =>
        /\ bucket.current <= bucket.volume
        /\ call.op = "Bucket" => bucket.current = bucket.volume
        /\ call.op = "remove" => bucket.current <= call.pre.current
        /\ call.op = "refill" => bucket.current >= call.pre.current
        /\ call.op = "is_empty" => bucket.current = call.pre.current

\* A refill that earned more tokens than the bucket had room for.
C17_Witness ==
    /\ obj = "Bucket" /\ P > 0
    /\ RefillReturned
    /\ call.pre.current < call.pre.volume
    /\ bucket.current = bucket.volume
    /\ (call.at - call.pre.last_refill_ns) \div P
           > bucket.volume - call.pre.current

AcceptedAt(h) == {i \in 1 .. Len(h) : h[i].ret = "True"}

\* C19 as stated: any two accepted allow() calls of one caller are at least
\* one refill period apart.
C19_AsStated ==
    (obj = "RateLimiter" /\ P > 0) =>
        \A i, j \in AcceptedAt(history) :
            i < j => history[j].at - history[i].at >= P

\* C19 amended: the k-th accepted allow() call of one caller comes at least
\* k - 1 full refill periods after the first accepted one (two neighbouring
\* accepted calls can be less than a period apart).
C19_AverageRate ==
    (obj = "RateLimiter" /\ P > 0) =>
        \A i, j \in AcceptedAt(history) :
            (i <= j /\ \A k \in AcceptedAt(history) : i <= k) =>
                (history[j].at - history[i].at) \div P
                    >= Cardinality({k \in AcceptedAt(history) : k <= j}) - 1

\* Three accepted calls, the last two less than a period apart.
C19_Witness ==
    /\ obj = "RateLimiter" /\ P > 1
    /\ \E i, j \in AcceptedAt(history) :
           /\ i < j
           /\ history[j].at - history[i].at < P
    /\ Cardinality(AcceptedAt(history)) >= 3

\* C20: for one caller the limiter's token count is 0 or 1 in every state
\* between calls, and 0 after every allow() call.
C20_CountZeroOrOne ==
    (obj = "RateLimiter" /\ P >= 0) =>
        /\ bucket.current \in {0, 1}
        /\ Len(history) >= 1 => bucket.current = 0

\* An accepted call on a limiter that was empty, after a rejected one.
C20_Witness ==
    /\ obj = "RateLimiter" /\ P > 0
    /\ call.op = "allow" /\ call.ret = "True"
    /\ call.pre.current = 0
    /\ \E i \in 1 .. Len(history) : history[i].ret = "False"
    /\ bucket.current = 0

\* ------------------------------------------------ properties of SpecRate
\* The constructions recorded so far.
Made == {rates[i] : i \in 1 .. Len(rates)}

\* C11: Rate.from_frequency raises ValueError, the invalid-argument error,
\* for every frequency <= 0 instead of returning a Rate or raising something
\* else.
C11_NonPositiveFrequencyRejected ==
    \A e \in Made :
        (e.via = "from_frequency" /\ e.num <= 0) => e.raised = "ValueError"

\* C12: Rate(amount, period) with amount >= 1 and period > 0 stores
\* floor(period / amount); two Rates are equal exactly when their normalised
\* periods are, whatever they were built from; Rate(2, P) = Rate(1, P / 2)
\* for even P.
C12_RateNormalisation ==
    /\ \A e \in Made :
           (e.via = "Rate" /\ e.amount >= 1 /\ e.period_in > 0) =>
               /\ e.raised = "None"
               /\ e.rate.period_ns = e.period_in \div e.amount
    /\ \A e1, e2 \in Made :
           (e1.raised = "None" /\ e2.raised = "None") =>
               /\ Rate_eq(e1.rate, e2.rate) <=>
                      (e1.rate.period_ns = e2.rate.period_ns)
               /\ ( /\ e1.via = "Rate" /\ e1.amount = 2
                    /\ e2.via = "Rate" /\ e2.amount = 1
                    /\ e1.period_in = 2 * e2.period_in ) =>
                      Rate_eq(e1.rate, e2.rate)

\* Rate(2, one second) next to Rate(1, half a second).
C12_Witness ==
    /\ Len(rates) = 2
    /\ rates[1].via = "Rate" /\ rates[1].amount = 2
    /\ rates[1].period_in = SECOND_AS_NS
    /\ rates[2].via = "Rate" /\ rates[2].amount = 1
    /\ rates[2].period_in = SECOND_AS_NS \div 2
    /\ Rate_eq(rates[1].rate, rates[2].rate)

\* The whole frequencies 1 .. 10 per second.
SmallFrequency(e) ==
    e.via = "from_frequency" /\ e.den = 1 /\ e.num >= 1 /\ e.num <= 10

\* C13 as stated: for the frequencies f = 1 .. 10, from_frequency(f) is
\* Rate(1, round(1e9 / f)).
C13_AsStated ==
    \A e \in Made :
        SmallFrequency(e) =>
            /\ e.raised = "None"
            /\ Rate_eq(e.rate, RateObject(RoundDiv(SECOND_AS_NS, e.num)))

\* C13 amended: for the frequencies f = 1 .. 10, from_frequency(f) is
\* Rate(1, floor(1e9 / f)): the period is truncated, not rounded.
C13_FromFrequencyTruncates ==
    \A e \in Made :
        SmallFrequency(e) =>
            /\ e.raised = "None"
            /\ Rate_eq(e.rate, RateObject(SECOND_AS_NS \div e.num))

\* from_frequency(7): 1e9 / 7 = 142857142.857..., stored as 142857142.
C13_Witness ==
    \E e \in Made :
        /\ SmallFrequency(e)
        /\ e.num = 7
        /\ e.rate.period_ns < RoundDiv(SECOND_AS_NS, e.num)

\* C18: every Rate constructed without error, by Rate(amount, period) with
\* amount >= 1 and period > 0 or by from_frequency with a positive frequency,
\* has period_ns > 0.
C18_PeriodPositive ==
    \A e \in Made :
        ( /\ e.raised = "None"
          /\ \/ e.via = "Rate" /\ e.amount >= 1 /\ e.period_in > 0
             \/ e.via = "from_frequency" /\ e.num > 0 ) =>
            e.rate.period_ns > 0

\* ------------------------------------------------ properties of SpecConc
\* Only the initial token of a fresh limiter exists: no refill period has
\* elapsed since construction.
OneToken == run.current = 1 /\ now - created_ns < P

BothAdmitted == \A c \in Callers : thr[c].pc = "done" /\ thr[c].ret = "True"

\* C14: two unsynchronised callers can both be admitted on one token.  When
\* that happens each caller's is_empty read saw that same token, before the
\* other's decrement was stored, and the count is left at -1 (at 0 when one of
\* the two decrements overwrote the other).
C14_OverAdmission ==
    (OneToken /\ BothAdmitted) =>
        /\ \A c \in Callers : thr[c].seen = 1
        /\ bucket.current \in {0 - 1, 0}

\* Both calls have returned True on the initial token and the count is -1.
C14_Witness ==
    /\ OneToken
    /\ BothAdmitted
    /\ bucket.current < 0

====
